---- MODULE Spec2Model ----
(***************************************************************************)
(* LED controller backend (src/app.py): one JSON state record in a file,   *)
(* read by GET /api/state, replaced by POST /api/state.                    *)
(*                                                                         *)
(* The state is the storage directory (the target file state.json and the *)
(* temporary files of atomic_write), the clock, and one record per request *)
(* handler thread giving its position in get_state/set_state and its       *)
(* local variables.  saved is a history variable: the record of the last   *)
(* atomic_write that replaced the target.  Each action is one step of a    *)
(* handler between two accesses to the filesystem; purely local            *)
(* computation (validate_state, the setdefault calls, the assignments of   *)
(* set_state) is done inside the step it follows.                          *)
(*                                                                         *)
(* A filesystem call that writes (os.makedirs, mkstemp, write, os.replace, *)
(* os.remove) may fail at any time.  A file that cannot be opened or       *)
(* decoded takes the except branch of load_state like a text that is not   *)
(* JSON, and is not told apart from it.                                    *)
(*                                                                         *)
(* Strings are sequences of one-character strings, so that HEX_COLOR_RE    *)
(* and int() are computed on the characters.  A JSON value is a tagged     *)
(* record [t, v]; a dict is a function from keys to JSON values; the text  *)
(* of a file is a sequence of tokens written by json_dumps and parsed by   *)
(* json_load, so a truncated text does not parse.                          *)
(***************************************************************************)
EXTENDS Integers, Sequences, FiniteSets, TLC

VARIABLES file, tmp, h, now, saved

vars == <<file, tmp, h, now, saved>>

(* ------------------------------ bounds --------------------------------- *)

\* the clock takes the values 0..MaxClock
MaxClock == 1
\* no write request starts once the persisted rev has reached MaxRev
MaxRev == 3
\* f.write reaches the temporary file in blocks of BlockLen tokens
BlockLen == 4

\* the request handler threads; Spec runs one request at a time on the first
Procs == {1, 2}
SeqProcs == {1}

(* ---------------------------- JSON values ------------------------------ *)

IntV(n)   == [t |-> "int",   v |-> n]
\* a float with one decimal, held as its number of tenths: 3.7 is FloatV(37)
FloatV(n) == [t |-> "float", v |-> n]
StrV(s)   == [t |-> "str",   v |-> s]
BoolV(b)  == [t |-> "bool",  v |-> b]
NullV     == [t |-> "null",  v |-> 0]
\* the str that datetime.isoformat() gives for the instant n of the clock
IsoV(n)   == [t |-> "iso",   v |-> n]

EmptyDict == [k \in {} |-> NullV]

\* setdefault written as an assignment: the default replaces what is there
setdefault_overwrite(st, k, d) == (k :> d) @@ [j \in DOMAIN st \ {k} |-> st[j]]

\* dict.setdefault(k, d)
setdefault(st, k, d) == IF k \in DOMAIN st THEN st ELSE (k :> d) @@ st

\* st[k] = x
setitem(st, k, x) == (k :> x) @@ [j \in DOMAIN st \ {k} |-> st[j]]

(* ------------------------------ constants ------------------------------ *)

LED_MIN == 0
LED_MAX == 8

HexDigits == {"0", "1", "2", "3", "4", "5", "6", "7", "8", "9",
              "a", "b", "c", "d", "e", "f", "A", "B", "C", "D", "E", "F"}

\* HEX_COLOR_RE.match(s) for the pattern ^#[0-9a-fA-F]{6}$ : without
\* re.MULTILINE, $ matches at the end of the string and also just before a
\* newline that ends the string.
HEX_COLOR_RE(s) ==
    /\ \/ Len(s) = 7
       \/ Len(s) = 8 /\ s[8] = "\n"
    /\ s[1] = "#"
    /\ \A i \in 2..7 : s[i] \in HexDigits

(* -------------------------------- int() -------------------------------- *)

Digits == {"0", "1", "2", "3", "4", "5", "6", "7", "8", "9"}

DigitVal(c) ==
    CASE c = "0" -> 0 [] c = "1" -> 1 [] c = "2" -> 2 [] c = "3" -> 3
      [] c = "4" -> 4 [] c = "5" -> 5 [] c = "6" -> 6 [] c = "7" -> 7
      [] c = "8" -> 8 [] c = "9" -> 9

RECURSIVE Strip(_)
Strip(s) ==
    IF s = <<>> THEN s
    ELSE IF s[1] = " " THEN Strip(Tail(s))
    ELSE IF s[Len(s)] = " " THEN Strip(SubSeq(s, 1, Len(s) - 1))
    ELSE s

IsDigits(s) == Len(s) >= 1 /\ \A i \in 1..Len(s) : s[i] \in Digits

RECURSIVE DigitsVal(_)
DigitsVal(s) ==
    IF s = <<>> THEN 0
    ELSE 10 * DigitsVal(SubSeq(s, 1, Len(s) - 1)) + DigitVal(s[Len(s)])

Raised == [ok |-> FALSE, v |-> 0]
Value(n) == [ok |-> TRUE, v |-> n]

\* int(s) for a str: surrounding blanks, an optional sign, decimal digits
str_int(s) ==
    LET u == Strip(s) IN
    IF u = <<>> THEN Raised
    ELSE IF u[1] \in {"+", "-"}
         THEN IF IsDigits(Tail(u))
              THEN Value(IF u[1] = "-" THEN 0 - DigitsVal(Tail(u))
                                     ELSE DigitsVal(Tail(u)))
              ELSE Raised
         ELSE IF IsDigits(u) THEN Value(DigitsVal(u)) ELSE Raised

\* int(x): Raised stands for the ValueError or TypeError
int(x) ==
    CASE x.t = "int"   -> Value(x.v)
      [] x.t = "bool"  -> Value(IF x.v THEN 1 ELSE 0)
      [] x.t = "float" -> Value(IF x.v >= 0 THEN x.v \div 10
                                            ELSE 0 - ((0 - x.v) \div 10))
      [] x.t = "str"   -> str_int(x.v)
      [] OTHER         -> Raised

(* --------------------------- validate_state ---------------------------- *)

MSG_COLOR == "color invalido - usa formato #RRGGBB"
MSG_INT   == "count debe ser un numero entero"
MSG_RANGE == "count invalido - debe estar entre 0 y 8"

validate_state(color, count) ==
    IF ~(color.t = "str" /\ HEX_COLOR_RE(color.v))
    THEN [ok |-> FALSE, msg |-> MSG_COLOR]
    ELSE IF ~int(count).ok
    THEN [ok |-> FALSE, msg |-> MSG_INT]
    ELSE IF ~(LED_MIN <= int(count).v /\ int(count).v <= LED_MAX)
    THEN [ok |-> FALSE, msg |-> MSG_RANGE]
    ELSE [ok |-> TRUE, msg |-> ""]

(* ------------------------ json.dumps / json.load ----------------------- *)

KeyOrder == <<"color", "count", "rev", "updated_at", "extra", "ok">>

LBrace     == [k |-> "{",   v |-> NullV]
RBrace     == [k |-> "}",   v |-> NullV]
KeyTok(x)  == [k |-> "key", v |-> StrV(<<x>>)]
ValTok(x)  == [k |-> "val", v |-> x]

RECURSIVE DumpItems(_, _)
DumpItems(st, i) ==
    IF i > Len(KeyOrder) THEN <<>>
    ELSE (IF KeyOrder[i] \in DOMAIN st
          THEN <<KeyTok(KeyOrder[i]), ValTok(st[KeyOrder[i]])>>
          ELSE <<>>) \o DumpItems(st, i + 1)

\* json.dumps(st): the text of the dict, one token per brace, key and value
json_dumps(st) == <<LBrace>> \o DumpItems(st, 1) \o <<RBrace>>

IsObjectText(text) ==
    /\ Len(text) >= 2
    /\ Len(text) % 2 = 0
    /\ text[1] = LBrace
    /\ text[Len(text)] = RBrace
    /\ \A i \in 1..((Len(text) - 2) \div 2) :
          /\ text[2 * i].k = "key"
          /\ text[2 * i + 1].k = "val"

ObjectKeys(text) == {text[2 * i].v.v[1] : i \in 1..((Len(text) - 2) \div 2)}

\* the value of the last pair of the text with this key
ObjectValue(text, key) ==
    LET is == {i \in 1..((Len(text) - 2) \div 2) : text[2 * i].v.v[1] = key}
        i == CHOOSE j \in is : \A m \in is : m <= j
    IN text[2 * i + 1].v

\* json.load(f): ok is FALSE when the text is not JSON (JSONDecodeError);
\* a text that is JSON but no object gives isObj FALSE
json_load(text) ==
    IF IsObjectText(text)
    THEN [ok |-> TRUE, isObj |-> TRUE,
          obj |-> [key \in ObjectKeys(text) |-> ObjectValue(text, key)]]
    ELSE IF Len(text) = 1 /\ text[1].k = "val"
    THEN [ok |-> TRUE, isObj |-> FALSE, obj |-> EmptyDict]
    ELSE [ok |-> FALSE, isObj |-> FALSE, obj |-> EmptyDict]

(* ------------------------------ the files ------------------------------ *)

NoFile == [exists |-> FALSE, text |-> <<>>]
File(text) == [exists |-> TRUE, text |-> text]

default_state ==
    ("color" :> StrV(<<"#", "f", "f", "0", "0", "0", "0">>))
    @@ ("count" :> IntV(0)) @@ ("rev" :> IntV(1)) @@ ("updated_at" :> IsoV(now))


(* --------------------------- request handlers -------------------------- *)

NoPayload == [isObj |-> TRUE, color |-> NullV, count |-> NullV]
NoResp == [status |-> 0, body |-> EmptyDict]

\* a handler thread with no request.  at is the step at which a filesystem
\* call of atomic_write raised, or at which the process was killed; rmerr
\* tells that an os.remove of the finally clause failed in this request
IdleH == [pc |-> "idle", at |-> "idle", kind |-> "none", payload |-> NoPayload,
          st |-> EmptyDict, ret |-> "none", wtext |-> <<>>, raised |-> FALSE,
          exc |-> "none", resp |-> NoResp, pre |-> NoFile, old |-> NoFile,
          started |-> 0, ovl |-> FALSE, rmerr |-> FALSE]

Active(hp) == hp.pc \notin {"idle", "done", "crashed"}

\* no request is being handled
Quiet == \A q \in Procs : ~Active(h[q])

\* jsonify(...) with the status code; the locals of the view function end
Respond(hp, status, body) ==
    [hp EXCEPT !.pc = "done", !.resp = [status |-> status, body |-> body],
               !.st = EmptyDict, !.wtext = <<>>, !.old = NoFile,
               !.raised = FALSE]

\* the exception exc leaves the view function: the server answers 500
Fail500(hp, exc) == [Respond(hp, 500, EmptyDict) EXCEPT !.exc = exc]

\* the call atomic_write(STATE_FILE, json.dumps(st))
EnterWrite(hp, st, ret) ==
    [hp EXCEPT !.pc = "aw_mkstemp", !.st = st, !.ret = ret,
               !.wtext = json_dumps(st), !.old = file, !.raised = FALSE]

\* set_state_update adding 2 to rev
set_state_update_rev2(hp, st) ==
    LET st1 == setitem(setitem(st, "color", hp.payload.color),
                       "count", IntV(int(hp.payload.count).v))
    IN IF ~int(st1["rev"]).ok
       THEN Fail500(hp, "ValueError")
       ELSE EnterWrite(hp,
                setitem(setitem(st1, "rev", IntV(int(st1["rev"]).v + 2)),
                        "updated_at", IsoV(now)),
                "set")

\* set_state_update without the assignment of count
set_state_update_keep_count(hp, st) ==
    LET st1 == setitem(st, "color", hp.payload.color)
    IN IF ~int(st1["rev"]).ok
       THEN Fail500(hp, "ValueError")
       ELSE EnterWrite(hp,
                setitem(setitem(st1, "rev", IntV(int(st1["rev"]).v + 1)),
                        "updated_at", IsoV(now)),
                "set")

\* set_state_update giving every written record the rev 1
set_state_update_rev_reset(hp, st) ==
    LET st1 == setitem(setitem(st, "color", hp.payload.color),
                       "count", IntV(int(hp.payload.count).v))
    IN IF ~int(st1["rev"]).ok
       THEN Fail500(hp, "ValueError")
       ELSE EnterWrite(hp,
                setitem(setitem(st1, "rev", IntV(1)),
                        "updated_at", IsoV(now)),
                "set")

\* set_state_update putting the key ok of the response into the record it saves
set_state_update_ok_saved(hp, st) ==
    LET st1 == setitem(setitem(st, "color", hp.payload.color),
                       "count", IntV(int(hp.payload.count).v))
    IN IF ~int(st1["rev"]).ok
       THEN Fail500(hp, "ValueError")
       ELSE EnterWrite(hp,
                setitem(setitem(setitem(st1, "rev",
                                        IntV(int(st1["rev"]).v + 1)),
                                "updated_at", IsoV(now)),
                        "ok", BoolV(TRUE)),
                "set")

\* set_state_update without the increment of rev
set_state_update_no_bump(hp, st) ==
    LET st1 == setitem(setitem(st, "color", hp.payload.color),
                       "count", IntV(int(hp.payload.count).v))
    IN IF ~int(st1["rev"]).ok
       THEN Fail500(hp, "ValueError")
       ELSE EnterWrite(hp,
                setitem(setitem(st1, "rev", IntV(int(st1["rev"]).v)),
                        "updated_at", IsoV(now)),
                "set")

\* set_state after load_state has returned st: the assignments, then the save
set_state_update(hp, st) ==
    LET st1 == setitem(setitem(st, "color", hp.payload.color),
                       "count", IntV(int(hp.payload.count).v))
    IN IF ~int(st1["rev"]).ok
       THEN Fail500(hp, "ValueError")
       ELSE EnterWrite(hp,
                setitem(setitem(st1, "rev", IntV(int(st1["rev"]).v + 1)),
                        "updated_at", IsoV(now)),
                "set")

\* load_state returns st to the view function that called it
LoadReturn(hp, st) ==
    IF hp.kind = "GET"
    THEN Respond([hp EXCEPT !.st = st], 200, st)
    ELSE set_state_update(hp, st)

\* the handler p takes a new request; requests that are being handled at that
\* moment overlap with it.  tmp[p] is the temporary file of the request of p:
\* one that an earlier request left behind is no longer followed
Begin(p, hp) ==
    /\ ~Active(h[p])
    /\ h' = [q \in Procs |->
                IF q = p
                THEN [hp EXCEPT !.pre = file, !.started = now,
                                !.ovl = \E r \in Procs \ {p} : Active(h[r])]
                ELSE IF Active(h[q]) THEN [h[q] EXCEPT !.ovl = TRUE]
                ELSE h[q]]
    /\ tmp' = [tmp EXCEPT ![p] = NoFile]
    /\ UNCHANGED <<file, now, saved>>

\* GET /api/state
get_state(p) ==
    Begin(p, [IdleH EXCEPT !.pc = "load_exists", !.kind = "GET"])

\* the file holds a JSON object
IsObject(f) == f.exists /\ json_load(f.text).ok /\ json_load(f.text).isObj

\* the JSON object the file holds
Object(f) == json_load(f.text).obj

\* the file holds a JSON object whose rev is an integer
HasIntRev(f) ==
    IF IsObject(f) /\ "rev" \in DOMAIN Object(f)
    THEN Object(f)["rev"].t = "int"
    ELSE FALSE

PersistedRevBelowBound ==
    IF HasIntRev(file) THEN Object(file)["rev"].v < MaxRev ELSE TRUE

\* POST /api/state up to the call of load_state
set_state(p, payload) ==
    /\ PersistedRevBelowBound
    /\ LET hp == [IdleH EXCEPT !.kind = "POST", !.payload = payload]
           v  == validate_state(payload.color, payload.count)
       IN Begin(p,
             IF ~payload.isObj
             THEN Fail500(hp, "AttributeError")
             ELSE IF ~v.ok
             THEN Respond(hp, 400, ("ok" :> BoolV(FALSE))
                                   @@ ("error" :> [t |-> "msg", v |-> v.msg]))
             ELSE [hp EXCEPT !.pc = "load_exists"])

\* load_state_exists returning the default record without persisting it
load_state_exists_nosave(p) ==
    /\ h[p].pc = "load_exists"
    /\ \/ /\ file.exists
          /\ h' = [h EXCEPT ![p].pc = "load_read"]
       \/ /\ ~file.exists
          /\ h' = [h EXCEPT ![p] = LoadReturn(h[p], default_state)]
       \/ /\ ~file.exists
          /\ h' = [h EXCEPT ![p] = Fail500(h[p], "OSError")]
    /\ UNCHANGED <<file, tmp, now, saved>>

\* load_state: os.makedirs and the test os.path.exists(STATE_FILE)
load_state_exists(p) ==
    /\ h[p].pc = "load_exists"
    /\ \/ /\ file.exists
          /\ h' = [h EXCEPT ![p].pc = "load_read"]
       \/ /\ ~file.exists
          /\ h' = [h EXCEPT ![p] = EnterWrite(h[p], default_state, "miss")]
       \/ /\ ~file.exists
          /\ h' = [h EXCEPT ![p] = Fail500(h[p], "OSError")]
    /\ UNCHANGED <<file, tmp, now, saved>>

\* load_state: the four setdefault on the dict that json.load gave
load_state_backfill(st) ==
    setdefault(setdefault(setdefault(setdefault(st,
        "color", StrV(<<"#", "f", "f", "0", "0", "0", "0">>)),
        "count", IntV(0)), "rev", IntV(1)), "updated_at", IsoV(now))

\* load_state_read whose except branch returns the default record without
\* persisting it
load_state_read_nosave(p) ==
    /\ h[p].pc = "load_read"
    /\ LET r == json_load(file.text) IN
       h' = [h EXCEPT ![p] =
               IF file.exists /\ r.ok /\ r.isObj
               THEN LoadReturn(h[p], load_state_backfill(r.obj))
               ELSE LoadReturn(h[p], default_state)]
    /\ UNCHANGED <<file, tmp, now, saved>>

\* load_state_read persisting the record it has backfilled
load_state_read_repair(p) ==
    /\ h[p].pc = "load_read"
    /\ LET r == json_load(file.text) IN
       h' = [h EXCEPT ![p] =
               IF file.exists /\ r.ok /\ r.isObj
               THEN EnterWrite(h[p], load_state_backfill(r.obj), "repair")
               ELSE EnterWrite(h[p], default_state, "corrupt")]
    /\ UNCHANGED <<file, tmp, now, saved>>

\* load_state: open, json.load, the four setdefault, and the except branch
load_state_read(p) ==
    /\ h[p].pc = "load_read"
    /\ LET r == json_load(file.text) IN
       h' = [h EXCEPT ![p] =
               IF file.exists /\ r.ok /\ r.isObj
               THEN LoadReturn(h[p], load_state_backfill(r.obj))
               ELSE EnterWrite(h[p], default_state, "corrupt")]
    /\ UNCHANGED <<file, tmp, now, saved>>

\* atomic_write: os.makedirs and tempfile.mkstemp, which may raise
atomic_write_mkstemp(p) ==
    /\ h[p].pc = "aw_mkstemp"
    /\ \/ /\ tmp' = [tmp EXCEPT ![p] = File(<<>>)]
          /\ h' = [h EXCEPT ![p].pc = "aw_write"]
       \/ /\ h' = [h EXCEPT ![p] = Fail500([h[p] EXCEPT !.at = "aw_mkstemp"],
                                           "OSError")]
          /\ UNCHANGED tmp
    /\ UNCHANGED <<file, now, saved>>

\* atomic_write_write writing the blocks to the target file as well
atomic_write_write_inplace(p) ==
    /\ h[p].pc = "aw_write"
    /\ \/ LET k == IF Len(tmp[p].text) + BlockLen < Len(h[p].wtext)
                    THEN Len(tmp[p].text) + BlockLen
                    ELSE Len(h[p].wtext)
          IN /\ tmp' = [tmp EXCEPT ![p] = File(SubSeq(h[p].wtext, 1, k))]
             /\ file' = File(SubSeq(h[p].wtext, 1, k))
             /\ h' = [h EXCEPT ![p].pc = IF k = Len(h[p].wtext)
                                         THEN "aw_replace" ELSE "aw_write"]
       \/ /\ h' = [h EXCEPT ![p].pc = "aw_finally", ![p].raised = TRUE,
                             ![p].at = "aw_write"]
          /\ UNCHANGED <<file, tmp>>
    /\ UNCHANGED <<now, saved>>

\* atomic_write: f.write(text) and the close, which reach the temporary file
\* block after block, or raise (disk full)
atomic_write_write(p) ==
    /\ h[p].pc = "aw_write"
    /\ \/ LET k == IF Len(tmp[p].text) + BlockLen < Len(h[p].wtext)
                    THEN Len(tmp[p].text) + BlockLen
                    ELSE Len(h[p].wtext)
          IN /\ tmp' = [tmp EXCEPT ![p] = File(SubSeq(h[p].wtext, 1, k))]
             /\ h' = [h EXCEPT ![p].pc = IF k = Len(h[p].wtext)
                                         THEN "aw_replace" ELSE "aw_write"]
       \/ /\ h' = [h EXCEPT ![p].pc = "aw_finally", ![p].raised = TRUE,
                             ![p].at = "aw_write"]
          /\ UNCHANGED tmp
    /\ UNCHANGED <<file, now, saved>>

\* atomic_write_replace whose failing os.replace has moved the file all the same
atomic_write_replace_moved(p) ==
    /\ h[p].pc = "aw_replace"
    /\ \/ /\ file' = tmp[p]
          /\ tmp' = [tmp EXCEPT ![p] = NoFile]
          /\ h' = [h EXCEPT ![p].pc = "aw_finally"]
          /\ saved' = [some |-> TRUE, rec |-> h[p].st]
       \/ /\ file' = tmp[p]
          /\ h' = [h EXCEPT ![p].pc = "aw_finally", ![p].raised = TRUE,
                             ![p].at = "aw_replace"]
          /\ UNCHANGED <<tmp, saved>>
    /\ UNCHANGED now

\* atomic_write: os.replace(tmp, path), which may raise
atomic_write_replace(p) ==
    /\ h[p].pc = "aw_replace"
    /\ \/ /\ file' = tmp[p]
          /\ tmp' = [tmp EXCEPT ![p] = NoFile]
          /\ h' = [h EXCEPT ![p].pc = "aw_finally"]
          /\ saved' = [some |-> TRUE, rec |-> h[p].st]
       \/ /\ h' = [h EXCEPT ![p].pc = "aw_finally", ![p].raised = TRUE,
                             ![p].at = "aw_replace"]
          /\ UNCHANGED <<file, tmp, saved>>
    /\ UNCHANGED now

\* atomic_write_finally that never removes the temporary file
atomic_write_finally_keep(p) ==
    /\ h[p].pc = "aw_finally"
    /\ h' = [h EXCEPT ![p] =
               IF h[p].raised THEN Fail500(h[p], "OSError")
               ELSE IF h[p].ret = "set"
               THEN Respond(h[p], 200, ("ok" :> BoolV(TRUE)) @@ h[p].st)
               ELSE LoadReturn(h[p], h[p].st)]
    /\ UNCHANGED <<file, tmp, now, saved>>

\* atomic_write: the finally clause (os.remove may fail, which is swallowed;
\* rmerr keeps that it did), then the return to the caller or the exception
\* that goes on
atomic_write_finally(p) ==
    /\ h[p].pc = "aw_finally"
    /\ \E failed \in {FALSE, TRUE} :
          /\ failed => tmp[p].exists
          /\ tmp' = IF failed THEN tmp ELSE [tmp EXCEPT ![p] = NoFile]
          /\ LET hp == [h[p] EXCEPT !.rmerr = h[p].rmerr \/ failed] IN
             h' = [h EXCEPT ![p] =
                     IF hp.raised THEN Fail500(hp, "OSError")
                     ELSE IF hp.ret = "set"
                     THEN Respond(hp, 200, ("ok" :> BoolV(TRUE)) @@ hp.st)
                     ELSE LoadReturn(hp, hp.st)]
    /\ UNCHANGED <<file, now, saved>>

\* the clock advances
Tick ==
    /\ now < MaxClock
    /\ now' = now + 1
    /\ UNCHANGED <<file, tmp, h, saved>>

\* the server process is killed: every request being handled stops where it
\* is (at), with the save it was doing (old, wtext); nothing else of it remains
Crash ==
    /\ ~Quiet
    /\ h' = [q \in Procs |->
                IF Active(h[q])
                THEN [IdleH EXCEPT !.pc = "crashed", !.at = h[q].pc,
                                   !.old = h[q].old, !.wtext = h[q].wtext]
                ELSE h[q]]
    /\ UNCHANGED <<file, tmp, now, saved>>

Step(p) ==
    \/ load_state_exists(p)
    \/ load_state_read(p)
    \/ atomic_write_mkstemp(p)
    \/ atomic_write_write(p)
    \/ atomic_write_replace(p)
    \/ atomic_write_finally(p)

(* ------------------------- inputs and storage -------------------------- *)

Green   == <<"#", "0", "0", "f", "f", "0", "0">>
Mixed   == <<"#", "A", "1", "b", "2", "C", "3">>
GreenNL == <<"#", "0", "0", "f", "f", "0", "0", "\n">>
Blue    == <<"#", "0", "0", "0", "0", "f", "f">>

Colors ==
    { StrV(Green), StrV(Mixed), StrV(GreenNL),
      StrV(<<"b", "l", "u", "e">>),
      StrV(<<"#", "1", "2", "3", "4", "5">>),
      StrV(<<"#", "1", "2", "3", "4", "5", "6", "7">>),
      StrV(<<"#", "0", "0", "g", "g", "0", "0">>),
      IntV(5), NullV }

Counts ==
    { IntV(0 - 1), IntV(0), IntV(3), IntV(8), IntV(9),
      FloatV(37), StrV(<<"3">>), StrV(<<"x">>), BoolV(TRUE), NullV }

\* the JSON bodies of the write requests; isObj FALSE is a body that is JSON
\* but no object (a non-empty list), on which payload.get raises
Payloads ==
    [isObj : {TRUE}, color : Colors, count : {IntV(3)}]
    \cup [isObj : {TRUE}, color : {StrV(Green)}, count : Counts]
    \cup {[isObj |-> TRUE, color |-> StrV(<<"b", "l", "u", "e">>),
           count |-> IntV(9)],
          [isObj |-> FALSE, color |-> NullV, count |-> NullV]}

Rec(color, count, rev, ts) ==
    ("color" :> color) @@ ("count" :> count) @@ ("rev" :> rev)
    @@ ("updated_at" :> ts)

GoodRec == Rec(StrV(Blue), IntV(2), IntV(2), IsoV(0))

\* what the storage may hold when the server starts: nothing, a text that is
\* not JSON (empty, truncated), JSON that is no object, an object with fields
\* missing, a complete record, records with fields of the wrong type or range,
\* a record with a key of its own
InitFiles ==
    { NoFile,
      File(<<>>),
      File(SubSeq(json_dumps(GoodRec), 1, 5)),
      File(<<ValTok(IntV(5))>>),
      File(json_dumps(EmptyDict)),
      File(json_dumps(("color" :> StrV(Mixed)) @@ ("count" :> IntV(5)))),
      File(json_dumps(GoodRec)),
      File(json_dumps(Rec(StrV(<<"b", "l", "u", "e">>), IntV(99),
                          StrV(<<"2">>), IsoV(0)))),
      File(json_dumps(Rec(IntV(5), StrV(<<"x">>), NullV, IntV(0)))),
      File(json_dumps("rev" :> FloatV(25))),
      File(json_dumps(("extra" :> IntV(7)) @@ GoodRec)) }

Init ==
    /\ file \in InitFiles
    /\ tmp = [p \in Procs |-> NoFile]
    /\ h = [p \in Procs |-> IdleH]
    /\ now = 0
    /\ saved = [some |-> FALSE, rec |-> EmptyDict]

\* requests are handled one at a time
Next ==
    \/ Tick
    \/ Crash
    \/ \E p \in SeqProcs :
          \/ Quiet /\ get_state(p)
          \/ Quiet /\ \E payload \in Payloads : set_state(p, payload)
          \/ Step(p)

Spec == Init /\ [][Next]_vars

\* the server starts with no state file (a fresh DATA_DIR)
InitMissing ==
    /\ file = NoFile
    /\ tmp = [p \in Procs |-> NoFile]
    /\ h = [p \in Procs |-> IdleH]
    /\ now = 0
    /\ saved = [some |-> FALSE, rec |-> EmptyDict]

SpecMissing == InitMissing /\ [][Next]_vars

\* the write requests of the overlapping runs
ConcPayloads ==
    { [isObj |-> TRUE, color |-> StrV(Green), count |-> IntV(3)],
      [isObj |-> TRUE, color |-> StrV(Mixed), count |-> IntV(8)] }

InitConc ==
    /\ file \in {NoFile, File(<<>>), File(json_dumps(GoodRec))}
    /\ tmp = [p \in Procs |-> NoFile]
    /\ h = [p \in Procs |-> IdleH]
    /\ now = 0
    /\ saved = [some |-> FALSE, rec |-> EmptyDict]

\* requests are handled by threads that interleave at every filesystem
\* access; the clock stands still and the process is not killed in these runs
NextConc ==
    \E p \in Procs :
          \/ get_state(p)
          \/ \E payload \in ConcPayloads : set_state(p, payload)
          \/ Step(p)

SpecConc == InitConc /\ [][NextConc]_vars

\* the server starts with a state file that holds a record, so that no load
\* ever takes the branches that persist the default record
InitStored ==
    /\ file = File(json_dumps([GoodRec EXCEPT !["rev"] = IntV(1)]))
    /\ tmp = [p \in Procs |-> NoFile]
    /\ h = [p \in Procs |-> IdleH]
    /\ now = 0
    /\ saved = [some |-> FALSE, rec |-> EmptyDict]

SpecStored == InitStored /\ [][NextConc]_vars

(* ------------------------------- claims -------------------------------- *)

\* #RRGGBB: '#' and six hexadecimal digits, nothing before or after
IsRRGGBB(x) ==
    /\ x.t = "str"
    /\ Len(x.v) = 7
    /\ x.v[1] = "#"
    /\ \A i \in 2..7 : x.v[i] \in HexDigits

\* an integer in 0..8 (a bool is an int; a digit string or a float with an
\* integral value counts as the integer it stands for)
IsCount(x) ==
    /\ x.t \in {"int", "bool", "str", "float"}
    /\ int(x).ok
    /\ x.t = "float" => x.v % 10 = 0
    /\ 0 <= int(x).v /\ int(x).v <= 8

\* the four fields of a StateRecord
RecordKeys == {"color", "count", "rev", "updated_at"}

\* the handler p has answered a request of this kind
Answered(p, kind) == h[p].pc = "done" /\ h[p].kind = kind

\* the default record, made at an instant between the start of the request
\* of p and now
IsFreshDefault(p, st) ==
    \E t \in h[p].started..now :
        st = Rec(StrV(<<"#", "f", "f", "0", "0", "0", "0">>), IntV(0), IntV(1),
                 IsoV(t))

\* a save of p is under way, or was when the process was killed
SavePcs == {"aw_mkstemp", "aw_write", "aw_replace", "aw_finally"}
InSave(p) ==
    \/ h[p].pc \in SavePcs
    \/ h[p].pc = "crashed" /\ h[p].at \in SavePcs

\* C1: with requests handled one at a time, a successful write persists and
\* returns a record whose rev is the rev persisted before the request plus 1,
\* and 2 when the storage was missing.
C1_RevPlusOne ==
    \A p \in Procs :
        (Answered(p, "POST") /\ h[p].resp.status = 200) =>
            /\ HasIntRev(file)
            /\ Object(file)["rev"] = h[p].resp.body["rev"]
            /\ HasIntRev(h[p].pre) =>
                  h[p].resp.body["rev"] = IntV(Object(h[p].pre)["rev"].v + 1)
            /\ ~h[p].pre.exists => h[p].resp.body["rev"] = IntV(2)

C1_Witness ==
    \E p \in Procs :
        /\ Answered(p, "POST") /\ h[p].resp.status = 200
        /\ HasIntRev(h[p].pre) /\ Object(h[p].pre)["rev"] = IntV(2)
        /\ h[p].resp.body["rev"] = IntV(3)
        /\ h[p].resp.body["color"] = StrV(Mixed)

\* C2 (as claimed): a write request whose color is not #RRGGBB or whose count
\* is not an integer in 0..8 is answered 400, unless an exception ended it,
\* and leaves the storage as it was.
C2_InvalidRejected ==
    \A p \in Procs :
        (/\ Answered(p, "POST") /\ h[p].payload.isObj /\ h[p].exc = "none"
         /\ ~(IsRRGGBB(h[p].payload.color) /\ IsCount(h[p].payload.count))) =>
            /\ h[p].resp.status = 400
            /\ file = h[p].pre

\* C3 (as claimed): a write request with a color #RRGGBB and a count in 0..8
\* succeeds.
C3_ValidSucceeds ==
    \A p \in Procs :
        (/\ Answered(p, "POST") /\ h[p].payload.isObj
         /\ IsRRGGBB(h[p].payload.color)
         /\ h[p].payload.count.t = "int" /\ IsCount(h[p].payload.count)) =>
            h[p].resp.status = 200

\* C3 (amended): such a request is never refused by the validation; it fails
\* only with an exception (the filesystem rejects a write of load_state or of
\* the save, or the stored rev cannot be converted to an integer); when it
\* succeeds the returned and the persisted color and count are the inputs.
C3_ValidWrite ==
    \A p \in Procs :
        (/\ Answered(p, "POST") /\ h[p].payload.isObj
         /\ IsRRGGBB(h[p].payload.color)
         /\ h[p].payload.count.t = "int" /\ IsCount(h[p].payload.count)) =>
            /\ h[p].resp.status \in {200, 500}
            /\ h[p].resp.status = 500 =>
                  \/ h[p].exc = "OSError"
                  \/ /\ h[p].exc = "ValueError"
                     /\ IsObject(h[p].pre)
                     /\ ~HasIntRev(h[p].pre)
            /\ h[p].resp.status = 200 =>
                  /\ h[p].resp.body["color"] = h[p].payload.color
                  /\ h[p].resp.body["count"] = h[p].payload.count
                  /\ IsObject(file)
                  /\ Object(file)["color"] = h[p].payload.color
                  /\ Object(file)["count"] = h[p].payload.count

C3_Witness ==
    \E p \in Procs :
        /\ Answered(p, "POST") /\ h[p].resp.status = 200
        /\ h[p].payload.color = StrV(Mixed) /\ h[p].payload.count = IntV(3)
        /\ IsObject(file) /\ Object(file)["color"] = StrV(Mixed)

\* C4 (as claimed): under every interleaving, a write request never replaces
\* the persisted record by one with a smaller rev.
C4_RevNeverDecreases ==
    [][\A p \in Procs :
          (/\ h[p].pc = "aw_replace" /\ h[p].ret = "set"
           /\ file' = File(h[p].wtext) /\ h'[p].pc = "aw_finally"
           /\ ~h'[p].raised
           /\ HasIntRev(file)) =>
              Object(file')["rev"].v >= Object(file)["rev"].v]_vars

\* C4 (amended): a request that overlaps with no other request never
\* replaces the persisted record by one with a smaller rev.
C4_RevMonotoneNoOverlap ==
    [][\A p \in Procs :
          (/\ h[p].pc = "aw_replace"
           /\ file' = File(h[p].wtext) /\ h'[p].pc = "aw_finally"
           /\ ~h'[p].raised
           /\ ~h[p].ovl
           /\ HasIntRev(file)) =>
              Object(file')["rev"].v >= Object(file)["rev"].v]_vars

C4_Witness ==
    \E p \in Procs :
        /\ h[p].pc = "aw_finally" /\ h[p].ret = "set" /\ ~h[p].raised
        /\ ~h[p].ovl
        /\ \E q \in Procs \ {p} : h[q].pc = "done" /\ h[q].ovl
        /\ HasIntRev(h[p].old) /\ HasIntRev(file)
        /\ Object(file)["rev"].v = Object(h[p].old)["rev"].v + 1

\* C5: at every step of a save, and after the process is killed at any of
\* them, the target file holds either what it held when the save began or the
\* whole new text.
C5_OldOrNew ==
    \A p \in Procs :
        InSave(p) => file \in {h[p].old, File(h[p].wtext)}

C5_Witness ==
    \E p \in Procs :
        /\ h[p].pc = "crashed" /\ h[p].at = "aw_write"
        /\ tmp[p].exists
        /\ 0 < Len(tmp[p].text) /\ Len(tmp[p].text) < Len(h[p].wtext)
        /\ file = h[p].old
        /\ IsObject(file)

\* C6: a read request on missing storage returns the default record (color
\* #ff0000, count 0, rev 1, the time of the request), and the storage then
\* holds exactly that record.
C6_LoadMissing ==
    \A p \in Procs :
        (Answered(p, "GET") /\ h[p].resp.status = 200 /\ ~h[p].pre.exists) =>
            /\ IsFreshDefault(p, h[p].resp.body)
            /\ file = File(json_dumps(h[p].resp.body))
            /\ IsObject(file) /\ Object(file) = h[p].resp.body

C6_Witness ==
    \E p \in Procs :
        /\ Answered(p, "GET") /\ h[p].resp.status = 200 /\ ~h[p].pre.exists
        /\ file.exists /\ h[p].resp.body["rev"] = IntV(1)

\* C7: a read request on storage that is not JSON, or JSON that is no object,
\* returns the default record with a fresh timestamp, as on missing storage,
\* and the storage then holds that record.
C7_LoadCorrupt ==
    \A p \in Procs :
        (/\ Answered(p, "GET") /\ h[p].resp.status = 200
         /\ h[p].pre.exists /\ ~IsObject(h[p].pre)) =>
            /\ IsFreshDefault(p, h[p].resp.body)
            /\ file = File(json_dumps(h[p].resp.body))
            /\ IsObject(file) /\ Object(file) = h[p].resp.body

C7_Witness ==
    \E p \in Procs :
        /\ Answered(p, "GET") /\ h[p].resp.status = 200
        /\ h[p].pre = File(SubSeq(json_dumps(GoodRec), 1, 5))
        /\ IsObject(file) /\ h[p].resp.body["updated_at"] = IsoV(1)

\* C8 (as claimed): every record a read request returns has a color #RRGGBB,
\* an integer count in 0..8, an integer rev and an updated_at.
C8_LoadedSchema ==
    \A p \in Procs :
        (Answered(p, "GET") /\ h[p].resp.status = 200) =>
            /\ RecordKeys \subseteq DOMAIN h[p].resp.body
            /\ IsRRGGBB(h[p].resp.body["color"])
            /\ h[p].resp.body["count"].t = "int"
            /\ IsCount(h[p].resp.body["count"])
            /\ h[p].resp.body["rev"].t = "int"

\* C9 (as claimed): every read request succeeds.
C9_GetSucceeds ==
    \A p \in Procs : Answered(p, "GET") => h[p].resp.status = 200

\* C10: a read request that follows a save, with no save in between, returns
\* the record that was saved.
C10_RoundTrip ==
    \A p \in Procs :
        (/\ Answered(p, "GET") /\ h[p].resp.status = 200
         /\ h[p].ret = "none" /\ saved.some
         /\ RecordKeys \subseteq DOMAIN saved.rec) =>
            h[p].resp.body = saved.rec

C10_Witness ==
    \E p \in Procs :
        /\ Answered(p, "GET") /\ h[p].resp.status = 200
        /\ h[p].ret = "none" /\ saved.some
        /\ h[p].resp.body["rev"] = IntV(3)
        /\ h[p].resp.body["color"] = StrV(GreenNL)
        /\ h[p].resp.body["updated_at"] = IsoV(0) /\ now = 1

\* the save of set_state (line 128) of the write request of p raised
SaveFailed(p) ==
    /\ Answered(p, "POST") /\ h[p].exc = "OSError" /\ h[p].ret = "set"

\* C11 (as claimed): when the save of a validated write request is rejected
\* by the filesystem, the request fails and the storage holds what it held
\* before the request began, whatever that was (a record, nothing, a corrupt
\* text).
C11_FailedSaveKeepsStorage ==
    \A p \in Procs :
        SaveFailed(p) =>
            /\ h[p].resp.status = 500
            /\ file = h[p].pre

\* C11 (amended): when the save of a validated write request is rejected by
\* the filesystem, the request fails; the storage holds what it held before
\* the request when that was a JSON object, and the default record that
\* load_state persisted in this request when the storage was missing or
\* corrupt.  In neither case does it hold the record of the request.
C11_FailedSaveKeepsLoaded ==
    \A p \in Procs :
        SaveFailed(p) =>
            /\ h[p].resp.status = 500
            /\ IsObject(h[p].pre) => file = h[p].pre
            /\ ~IsObject(h[p].pre) =>
                  /\ IsObject(file)
                  /\ IsFreshDefault(p, Object(file))
                  /\ file = File(json_dumps(Object(file)))

C11_Witness ==
    \E p \in Procs :
        /\ SaveFailed(p) /\ h[p].resp.status = 500
        /\ h[p].pre = File(json_dumps(GoodRec))
        /\ h[p].payload.color = StrV(Mixed)
        /\ file = h[p].pre

\* the keys of the persisted record and of the records returned are exactly
\* these, and a successful write request adds ok = true to them
OnlyKeys(keys) ==
    /\ file.exists => (IsObject(file) /\ DOMAIN Object(file) = keys)
    /\ \A p \in Procs :
          /\ (Answered(p, "GET") /\ h[p].resp.status = 200) =>
                DOMAIN h[p].resp.body = keys
          /\ (Answered(p, "POST") /\ h[p].resp.status = 200) =>
                /\ DOMAIN h[p].resp.body = keys \cup {"ok"}
                /\ h[p].resp.body["ok"] = BoolV(TRUE)

C13_ColorRejected ==
    \A p \in Procs :
        (/\ Answered(p, "POST") /\ h[p].payload.isObj /\ h[p].exc = "none"
         /\ ~IsRRGGBB(h[p].payload.color)) =>
            /\ h[p].resp.status = 400
            /\ h[p].resp.body =
                  ("ok" :> BoolV(FALSE))
                  @@ ("error" :> [t |-> "msg", v |-> MSG_COLOR])

\* the write request of p was refused by validate_state
Refused(p) == h[p].pc = "done" /\ h[p].resp.status = 400

\* C14 (as claimed): validate_state lets a write request pass if and only if
\* its color is '#' and six hexadecimal digits with nothing before or after
\* and its count converts to an integer in 0..8; a request it refuses gets a
\* reason that is not empty and leaves the storage as it was.
C14_ValidateIff ==
    \A p \in Procs :
        (h[p].kind = "POST" /\ h[p].payload.isObj) =>
            /\ ~Refused(p) <=>
                  /\ IsRRGGBB(h[p].payload.color)
                  /\ int(h[p].payload.count).ok
                  /\ LED_MIN <= int(h[p].payload.count).v
                  /\ int(h[p].payload.count).v <= LED_MAX
            /\ Refused(p) =>
                  /\ h[p].resp.body["error"].v # ""
                  /\ file = h[p].pre

\* the request of p is over and has run atomic_write at least once
SaveOver(p) == h[p].pc = "done" /\ h[p].ret # "none"

\* C15 (as claimed): when os.replace fails, the temporary file is removed and
\* the target file keeps its content; after every atomic_write that has run
\* to its end, with or without an exception, no temporary file remains.
C15_NoTempRemains ==
    \A p \in Procs :
        /\ (h[p].pc = "aw_finally" /\ h[p].raised /\ h[p].at = "aw_replace") =>
              file = h[p].old
        /\ SaveOver(p) => ~tmp[p].exists

\* C15 (amended): when os.replace fails, the target file keeps its content
\* and the temporary file, which holds the whole new text, is removed unless
\* os.remove fails in its turn, which is ignored; after every atomic_write
\* that has run to its end, with or without an exception, no temporary file
\* remains unless such a removal failed.
C15_TempRemovedUnlessRemoveFails ==
    \A p \in Procs :
        /\ (h[p].pc = "aw_finally" /\ h[p].raised /\ h[p].at = "aw_replace") =>
              /\ file = h[p].old
              /\ tmp[p] = File(h[p].wtext)
        /\ (SaveOver(p) /\ h[p].at = "aw_replace") =>
              /\ h[p].resp.status = 500
              /\ IsObject(h[p].pre) => file = h[p].pre
        /\ (SaveOver(p) /\ ~h[p].rmerr) => ~tmp[p].exists

C15_Witness ==
    \E p \in Procs :
        /\ SaveOver(p) /\ h[p].at = "aw_replace" /\ h[p].ret = "set"
        /\ h[p].resp.status = 500
        /\ ~h[p].rmerr /\ ~tmp[p].exists
        /\ h[p].pre = File(json_dumps(GoodRec)) /\ file = h[p].pre

\* C16: with requests handled one at a time, the state file changes only in
\* the os.replace of a save, which is either the save of a write request that
\* passed validate_state, or the save by which load_state persists the
\* default record when the file is missing or holds no JSON object.  So a
\* load of a file that holds a JSON object leaves the file as it is, also
\* when it fills in missing fields of the record it returns.
C16_LoadKeepsStorage ==
    [][file' # file =>
          \E p \in Procs :
              /\ h[p].pc = "aw_replace"
              /\ file' = File(h[p].wtext)
              /\ \/ /\ h[p].ret = "set" /\ h[p].kind = "POST"
                    /\ validate_state(h[p].payload.color,
                                      h[p].payload.count).ok
                 \/ /\ h[p].ret \in {"miss", "corrupt"}
                    /\ ~IsObject(file)
                    /\ IsFreshDefault(p, Object(file'))]_vars

C16_Witness ==
    \E p \in Procs :
        /\ Answered(p, "GET") /\ h[p].resp.status = 200
        /\ h[p].pre = File(json_dumps("rev" :> FloatV(25)))
        /\ DOMAIN h[p].resp.body = RecordKeys
        /\ h[p].resp.body["updated_at"] = IsoV(1)
        /\ file = h[p].pre

\* the record of a response, without the key ok that set_state adds
BodyRecord(body) == [k \in DOMAIN body \ {"ok"} |-> body[k]]

\* the write request of p has succeeded
Written(p) == Answered(p, "POST") /\ h[p].resp.status = 200

\* C17: with write requests that overlap, only os.replace is atomic: the
\* state file holds at every moment what it held at the start or the whole
\* text of one save, and after two write requests have both succeeded it
\* holds the record returned by one of them; nothing orders the load of one
\* request and the save of the other, and the state C17_Witness is reached,
\* in which two overlapping write requests that started on the same record
\* have both succeeded with the same rev, one greater than the rev they
\* started from, and the file holds that rev (one update is lost).
C17_OnlyReplaceAtomic ==
    /\ (file.exists /\ file # File(<<>>)) =>
          /\ IsObject(file)
          /\ file = File(json_dumps(Object(file)))
    /\ \A p, q \in Procs :
          (p # q /\ Written(p) /\ Written(q)) =>
              \/ file = File(json_dumps(BodyRecord(h[p].resp.body)))
              \/ file = File(json_dumps(BodyRecord(h[q].resp.body)))

C17_Witness ==
    /\ Written(1) /\ Written(2)
    /\ h[1].ovl /\ h[2].ovl
    /\ h[1].pre = File(json_dumps(GoodRec)) /\ h[2].pre = h[1].pre
    /\ h[1].resp.body["rev"] = IntV(GoodRec["rev"].v + 1)
    /\ h[2].resp.body["rev"] = h[1].resp.body["rev"]
    /\ h[1].resp.body["color"] # h[2].resp.body["color"]
    /\ HasIntRev(file) /\ Object(file)["rev"] = IntV(GoodRec["rev"].v + 1)

\* the request of p has returned a record
Returned(p) == h[p].pc = "done" /\ h[p].resp.status = 200

SameLeds(a, b) == a["color"] = b["color"] /\ a["count"] = b["count"]

\* C18 (as claimed): in a run without reinitialization, under every
\* interleaving, two records with the same rev among those that the requests
\* have returned and the one in the state file have the same color and count.
C18_RevTellsRecord ==
    /\ \A p, q \in Procs :
          (/\ Returned(p) /\ Returned(q)
           /\ h[p].resp.body["rev"] = h[q].resp.body["rev"]) =>
              SameLeds(h[p].resp.body, h[q].resp.body)
    /\ \A p \in Procs :
          (/\ Returned(p) /\ HasIntRev(file)
           /\ h[p].resp.body["rev"] = Object(file)["rev"]) =>
              SameLeds(h[p].resp.body, Object(file))

\* C18 (amended): in a run without reinitialization, two records with the
\* same rev among those returned by requests that overlapped no other request
\* and the one in the state file have the same color and count; no load
\* persists the default record in such a run.
C18_RevTellsRecordNoOverlap ==
    /\ \A p, q \in Procs :
          (/\ Returned(p) /\ Returned(q) /\ ~h[p].ovl /\ ~h[q].ovl
           /\ h[p].resp.body["rev"] = h[q].resp.body["rev"]) =>
              SameLeds(h[p].resp.body, h[q].resp.body)
    /\ \A p \in Procs :
          (/\ Returned(p) /\ ~h[p].ovl /\ HasIntRev(file)
           /\ h[p].resp.body["rev"] = Object(file)["rev"]) =>
              SameLeds(h[p].resp.body, Object(file))
    /\ \A p \in Procs : h[p].ret \notin {"miss", "corrupt"}

C18_Witness ==
    /\ Written(1) /\ ~h[1].ovl
    /\ Answered(2, "GET") /\ Returned(2) /\ ~h[2].ovl
    /\ h[1].resp.body["rev"] = IntV(3)
    /\ h[2].resp.body["rev"] = h[1].resp.body["rev"]
    /\ h[2].resp.body["color"] = StrV(Mixed)
    /\ Object(file)["rev"] = h[1].resp.body["rev"]

\* C19 (as claimed): under every interleaving, the os.replace of a read
\* request never replaces a record that a write request answered 200 has
\* persisted.
C19_ReadKeepsWrite ==
    [][\A p \in Procs :
          (/\ h[p].kind = "GET" /\ h[p].pc = "aw_replace"
           /\ h'[p].pc = "aw_finally" /\ ~h'[p].raised
           /\ file' = File(h[p].wtext)) =>
              ~\E q \in Procs :
                  /\ Written(q)
                  /\ file = File(json_dumps(BodyRecord(h[q].resp.body)))]_vars

====
